---- MODULE Spec2Model ----
(***************************************************************************)
(* Verification model of the purchase-order to sales-order converter.      *)
(*                                                                         *)
(* Strings that the program inspects character by character (table cells,  *)
(* header cells, names, monetary text) are sequences of one-character      *)
(* strings.  Floats are exact decimals: a line-item number n is the        *)
(* integer n * Scale, a monetary amount of po_details is a decimal string  *)
(* as the program stores it.                                               *)
(***************************************************************************)
EXTENDS Integers, Sequences, FiniteSets, TLC

\* ------------------------------------------------------------------------
\* Bounds of the model
\* ------------------------------------------------------------------------
\* most tables in a parsed document of the table-rich inputs
MaxTables == 2
\* most data rows (rows after a header row) of a document, all tables together
MaxRows == 2

\* fixed-point unit of the line-item numbers: 1.0 is Scale, 0.001 is 1
Scale == 10 * 100

\* ------------------------------------------------------------------------
\* Python values
\* ------------------------------------------------------------------------
\* the absent cell of a ragged row (pandas fills it with None)
None == "None"
\* a dict with no key
EmptyMap == [k \in {} |-> k]
\* d.get(k, dflt)
Get(d, k, dflt) == IF k \in DOMAIN d THEN d[k] ELSE dflt
\* d[k] = v
Put(d, k, v) == [x \in (DOMAIN d) \cup {k} |-> IF x = k THEN v ELSE d[x]]

UpperChars == <<"A","B","C","D","E","F","G","H","I","J","K","L","M","N","O","P","Q","R","S","T","U","V","W","X","Y","Z">>
LowerChars == <<"a","b","c","d","e","f","g","h","i","j","k","l","m","n","o","p","q","r","s","t","u","v","w","x","y","z">>
DigitChars == <<"0","1","2","3","4","5","6","7","8","9">>
Range(s) == {s[i] : i \in DOMAIN s}
IndexOf(c, s) == CHOOSE i \in DOMAIN s : s[i] = c
DigitSet == Range(DigitChars)
UpperSet == Range(UpperChars)
AlnumSet == Range(DigitChars) \cup Range(UpperChars) \cup Range(LowerChars)
IsDigit(c) == c \in DigitSet
IsAlnum(c) == c \in AlnumSet
IsSpace(c) == c \in {" ", "\t", "\n"}
DigitValues == [c \in DigitSet |-> IndexOf(c, DigitChars) - 1]
DigitVal(c) == DigitValues[c]

\* str(x) of a cell: the cell's text, or "None" for an absent cell
Str(cell) == IF cell = None THEN <<"N","o","n","e">> ELSE cell
\* s.lower()
LowerOfUpper == [c \in UpperSet |-> LowerChars[IndexOf(c, UpperChars)]]
LowerChar(c) == IF c \in UpperSet THEN LowerOfUpper[c] ELSE c
Lower(s) == [i \in DOMAIN s |-> LowerChar(s[i])]
\* s.strip()
RECURSIVE LStrip(_)
LStrip(s) == IF s # <<>> /\ IsSpace(Head(s)) THEN LStrip(Tail(s)) ELSE s
RECURSIVE RStrip(_)
RStrip(s) == IF s # <<>> /\ IsSpace(s[Len(s)]) THEN RStrip(SubSeq(s, 1, Len(s) - 1)) ELSE s
Strip(s) == RStrip(LStrip(s))
\* keyword in header
Contains(h, kw) == \E i \in 1..(Len(h) - Len(kw) + 1) : SubSeq(h, i, i + Len(kw) - 1) = kw

\* re.sub(r'[^\d.]', '', s)
IsNumericChar(c) == IsDigit(c) \/ c = "."
StripNonNumeric(s) == SelectSeq(s, IsNumericChar)
\* re.sub(r'[^A-Za-z0-9]', '', s)
StripNonAlnum(s) == SelectSeq(s, IsAlnum)
\* s.replace(',', '')
IsNotComma(c) == c # ","
RemoveCommas(s) == SelectSeq(s, IsNotComma)

\* ------------------------------------------------------------------------
\* float(s) and str(x)
\* ------------------------------------------------------------------------
RECURSIVE DigitsValue(_)
DigitsValue(s) == IF s = <<>> THEN 0 ELSE DigitsValue(SubSeq(s, 1, Len(s) - 1)) * 10 + DigitVal(s[Len(s)])
RECURSIVE Pow10(_)
Pow10(n) == IF n = 0 THEN 1 ELSE 10 * Pow10(n - 1)
IsDot(c) == c = "."
DotCount(s) == Len(SelectSeq(s, IsDot))
DigitCount(s) == Len(SelectSeq(s, IsDigit))
\* float(s) accepts a text of digits and dots when it holds one dot at most
\* and one digit at least; anything else raises ValueError
FloatParses(s) == DotCount(s) <= 1 /\ DigitCount(s) >= 1 /\ \A i \in DOMAIN s : IsNumericChar(s[i])
DotPos(s) == IF DotCount(s) = 0 THEN Len(s) + 1 ELSE IndexOf(".", s)
IntPart(s) == SubSeq(s, 1, DotPos(s) - 1)
FracPart(s) == SubSeq(s, DotPos(s) + 1, Len(s))
\* the value of float(s), times Scale (texts of the model carry 3 decimals at most)
FloatOf(s) == DigitsValue(IntPart(s)) * Scale + (DigitsValue(FracPart(s)) * Scale) \div Pow10(Len(FracPart(s)))

RECURSIVE NatStr(_)
NatStr(n) == IF n < 10 THEN <<DigitChars[n + 1]>> ELSE NatStr(n \div 10) \o <<DigitChars[(n % 10) + 1]>>
\* str(x) of a float x with two decimals at most, given in cents:
\* the shortest decimal text, with one decimal at least ("8.5", "100.0", "8.05")
FloatStr(cents) == NatStr(cents \div 100) \o <<".">> \o (IF cents % 10 = 0 THEN NatStr((cents % 100) \div 10) ELSE <<DigitChars[((cents % 100) \div 10) + 1], DigitChars[(cents % 10) + 1]>>)
\* float(s) of a monetary text, in cents
CentsOf(s) == FloatOf(s) \div (Scale \div 100)
\* round(x, 2), in cents, of the decimal num/den cents.  Python rounds the
\* binary float nearest to the decimal, so a decimal tie (..5 exactly) falls
\* to either side, depending on the float: tieUp chooses the side
Round2(num, den, tieUp) == LET q == num \div den   r == num % den IN IF 2 * r > den \/ (2 * r = den /\ tieUp) THEN q + 1 ELSE q

\* ------------------------------------------------------------------------
\* simplified_data_extractor: tables
\* ------------------------------------------------------------------------
item_keywords == <<<<"i","t","e","m">>, <<"p","r","o","d","u","c","t">>, <<"d","e","s","c","r","i","p","t","i","o","n">>, <<"p","a","r","t">>, <<"s","k","u">>>>
code_keywords == <<<<"c","o","d","e">>, <<"s","k","u">>, <<"p","a","r","t"," ","n","u","m","b","e","r">>, <<"i","t","e","m"," ","n","u","m","b","e","r">>, <<"i","d">>>>
qty_keywords == <<<<"q","t","y">>, <<"q","u","a","n","t","i","t","y">>, <<"a","m","o","u","n","t">>, <<"u","n","i","t","s">>>>
price_keywords == <<<<"p","r","i","c","e">>, <<"r","a","t","e">>, <<"u","n","i","t"," ","p","r","i","c","e">>, <<"c","o","s","t">>>>
total_keywords == <<<<"t","o","t","a","l">>, <<"a","m","o","u","n","t">>, <<"l","i","n","e"," ","t","o","t","a","l">>, <<"e","x","t","e","n","d","e","d">>>>

Max(a, b) == IF a >= b THEN a ELSE b
Min(a, b) == IF a <= b THEN a ELSE b
RECURSIVE MaxLen(_)
MaxLen(rows) == IF rows = <<>> THEN 0 ELSE Max(Len(Head(rows)), MaxLen(Tail(rows)))
\* pd.DataFrame(table): every row padded with None to the longest row
DataFrame(table) == LET width == MaxLen(table) IN [i \in DOMAIN table |-> [j \in 1..width |-> IF j <= Len(table[i]) THEN table[i][j] ELSE None]]
DfColumns(df) == IF df = <<>> THEN 0 ELSE Len(df[1])
DfEmpty(df) == Len(df) = 0 \/ DfColumns(df) = 0
\* [str(col).lower() for col in df.iloc[0]]
HeaderRow(df) == [j \in 1..DfColumns(df) |-> Lower(Str(df[1][j]))]
\* [str(col).lower() for col in df.columns]: the column labels 0, 1, ...
ColumnLabels(df) == [j \in 1..DfColumns(df) |-> NatStr(j - 1)]

HasKeyword(header, keywords) == \E k \in DOMAIN keywords : Contains(header, keywords[k])
AnyHeader(headers, keywords) == \E j \in DOMAIN headers : HasKeyword(headers[j], keywords)

is_line_items_table(df) ==
  IF DfEmpty(df) \/ DfColumns(df) < 3 THEN FALSE
  ELSE LET headers == HeaderRow(df)
           has_item == AnyHeader(headers, item_keywords)
           has_qty == AnyHeader(headers, qty_keywords)
           has_price == AnyHeader(headers, price_keywords)
       IN has_item /\ has_qty /\ has_price

\* the 1-based index of the first header holding a keyword, or 0 for None
find_column_index(headers, keywords) ==
  LET hits == {j \in DOMAIN headers : HasKeyword(headers[j], keywords)}
  IN IF hits = {} THEN 0 ELSE CHOOSE j \in hits : \A i \in hits : j <= i

\* the mapped columns of extract_line_items
Columns(headers) == [item_col |-> find_column_index(headers, item_keywords), code_col |-> find_column_index(headers, code_keywords), qty_col |-> find_column_index(headers, qty_keywords), price_col |-> find_column_index(headers, price_keywords), total_col |-> find_column_index(headers, total_keywords)]

\* the text a numeric column leaves after strip and re.sub, or <<>> when the
\* column is not mapped
NumericText(row, col) == IF col # 0 /\ col <= Len(row) THEN StripNonNumeric(Strip(Str(row[col]))) ELSE <<>>
\* float() raises ValueError on a non-empty text that is no number
RowRaises(cols, row) == \E c \in {cols.qty_col, cols.price_col, cols.total_col} : LET text == NumericText(row, c) IN text # <<>> /\ ~FloatParses(text)
\* all(str(cell).strip() == '' for cell in row)
RowIsEmpty(row) == \A j \in DOMAIN row : Strip(Str(row[j])) = <<>>

WithText(item, key, row, col) == IF col # 0 /\ col <= Len(row) THEN Put(item, key, Strip(Str(row[col]))) ELSE item
\* a plausible slip: a cell that strips to nothing counts as zero
WithNumberOrZero(item, key, row, col) == LET text == NumericText(row, col) IN IF text # <<>> THEN Put(item, key, FloatOf(text)) ELSE IF col # 0 /\ col <= Len(row) THEN Put(item, key, 0) ELSE item
WithNumber(item, key, row, col) == LET text == NumericText(row, col) IN IF text # <<>> THEN Put(item, key, FloatOf(text)) ELSE item
\* a * b of two numbers in units of 1/Scale, the integer part of a first
Times(a, b) == (a \div Scale) * b + ((a % Scale) * b) \div Scale
\* WithDerivedTotal with the product written over an extracted total price
WithDerivedTotalAlways(item) == IF "quantity" \in DOMAIN item /\ "unit_price" \in DOMAIN item THEN Put(item, "total_price", Times(item["quantity"], item["unit_price"])) ELSE item
\* line_item['total_price'] = line_item['quantity'] * line_item['unit_price']
WithDerivedTotal(item) == IF "quantity" \in DOMAIN item /\ "unit_price" \in DOMAIN item /\ "total_price" \notin DOMAIN item THEN Put(item, "total_price", Times(item["quantity"], item["unit_price"])) ELSE item
\* the line_item dict built from one data row that does not raise
RowItem(cols, row) == WithDerivedTotal(WithNumber(WithNumber(WithNumber(WithText(WithText(EmptyMap, "description", row, cols.item_col), "item_code", row, cols.code_col), "quantity", row, cols.qty_col), "unit_price", row, cols.price_col), "total_price", row, cols.total_col))
\* the condition of result['line_items'].append(line_item)
Retained(item) == ("description" \in DOMAIN item \/ "item_code" \in DOMAIN item) /\ "quantity" \in DOMAIN item

\* the rows loop: the items appended, and whether a row raised (the loop
\* stops at the first row that raises)
RECURSIVE RowsLoop(_, _, _)
RowsLoop(cols, rows, items) ==
  IF rows = <<>> THEN [raised |-> FALSE, items |-> items]
  ELSE LET row == Head(rows)
           line_item == RowItem(cols, row)
       IN IF RowIsEmpty(row) THEN RowsLoop(cols, Tail(rows), items)
          ELSE IF RowRaises(cols, row) THEN [raised |-> TRUE, items |-> items]
          ELSE IF Retained(line_item) THEN RowsLoop(cols, Tail(rows), Append(items, line_item))
          ELSE RowsLoop(cols, Tail(rows), items)

extract_line_items(df, items) ==
  LET data_df == IF Len(df) > 1 THEN Tail(df) ELSE df
      headers == IF Len(df) > 1 THEN HeaderRow(df) ELSE ColumnLabels(df)
      cols == Columns(headers)
  IN RowsLoop(cols, data_df, items)

\* the tables loop: every table that looks like a line-items table appends
\* its items
RECURSIVE extract_from_tables(_, _)
extract_from_tables(tables, items) ==
  IF tables = <<>> THEN [raised |-> FALSE, items |-> items]
  ELSE LET df == DataFrame(Head(tables))
           out == extract_line_items(df, items)
       IN IF ~is_line_items_table(df) THEN extract_from_tables(Tail(tables), items)
          ELSE IF out.raised THEN out
          ELSE extract_from_tables(Tail(tables), out.items)

\* ------------------------------------------------------------------------
\* simplified_data_extractor: text
\* ------------------------------------------------------------------------
\* The text of a document is modelled by what each re.search of the
\* extractor finds in it: per field, the captured group, or no entry when
\* the pattern does not match.
StripAll(found, keys) == [k \in (DOMAIN found) \cap keys |-> Strip(found[k])]
extract_client_info(text) == StripAll(text["client_info"], {"name", "phone", "address"}) @@ [k \in (DOMAIN text["client_info"]) \cap {"email"} |-> text["client_info"][k]]
MoneyKeys == {"Total Amount", "Subtotal", "Tax", "Shipping"}
extract_po_details(text) == [k \in DOMAIN text["po_details"] |-> IF k \in MoneyKeys THEN RemoveCommas(Strip(text["po_details"][k])) ELSE Strip(text["po_details"][k])]
\* result['ship_to'] is created by the first ship-to field found
extract_shipping_info(text, result) == IF DOMAIN text["ship_to"] = {} THEN result ELSE Put(result, "ship_to", StripAll(text["ship_to"], {"name", "address", "phone"}))
extract_from_text(text, result) == extract_shipping_info(text, Put(Put(result, "client_info", extract_client_info(text)), "po_details", extract_po_details(text)))

\* ------------------------------------------------------------------------
\* simplified_data_extractor: validate_and_clean_data
\* ------------------------------------------------------------------------
\* the dates datetime.now() can give during one call, in time order
NowDates == <<<<"1","1","/","0","2","/","2","0","2","6">>, <<"1","1","/","0","3","/","2","0","2","6">>>>
DefaultShipping == <<"7","5",".","0","0">>
DefaultPaymentTerms == <<"N","e","t"," ","3","0">>
\* the tax rate 0.085, in thousandths
TaxRatePerMille == 85
DefaultLineItem == [item_code |-> <<"D","E","F","A","U","L","T","0","0","1">>, description |-> <<"S","t","a","n","d","a","r","d"," ","P","r","o","d","u","c","t">>, quantity |-> 1 * Scale, unit_price |-> 100 * Scale, total_price |-> 100 * Scale]

SynthPoNumber(name) == <<"P","O","-">> \o SubSeq(StripNonAlnum(name), 1, Min(5, Len(StripNonAlnum(name))))
WithPoNumber(result) == IF "PO Number" \notin DOMAIN result["po_details"] /\ "name" \in DOMAIN result["client_info"] THEN Put(result["po_details"], "PO Number", SynthPoNumber(result["client_info"]["name"])) ELSE result["po_details"]
\* WithDefault with the due date left out
WithDefaultButDueDate(po, key, value) == IF key \notin DOMAIN po /\ key # "Due Date" THEN Put(po, key, value) ELSE po
WithDefault(po, key, value) == IF key \notin DOMAIN po THEN Put(po, key, value) ELSE po

RECURSIVE SumTotalPrice(_)
SumTotalPrice(items) == IF items = <<>> THEN 0 ELSE Get(Head(items), "total_price", 0) + SumTotalPrice(Tail(items))
\* str(round(subtotal, 2)): the sum of no total_price at all is the int 0,
\* whose text is "0"
SubtotalStr(items, tieUp) == IF \A i \in DOMAIN items : "total_price" \notin DOMAIN items[i] THEN <<"0">> ELSE FloatStr(Round2(SumTotalPrice(items), Scale \div 100, tieUp))
WithSubtotal(po, items, tieUp) == IF "Subtotal" \notin DOMAIN po /\ items # <<>> THEN Put(po, "Subtotal", SubtotalStr(items, tieUp)) ELSE po
WithTax(po, tieUp) == IF "Tax" \notin DOMAIN po /\ "Subtotal" \in DOMAIN po THEN Put(po, "Tax", FloatStr(Round2(CentsOf(po["Subtotal"]) * TaxRatePerMille, 1000, tieUp))) ELSE po
\* TotalStr with the shipping left out of the sum
TotalStrNoShipping(po) == FloatStr(CentsOf(Get(po, "Subtotal", <<"0">>)) + CentsOf(Get(po, "Tax", <<"0">>)))
TotalStr(po) == FloatStr(CentsOf(Get(po, "Subtotal", <<"0">>)) + CentsOf(Get(po, "Tax", <<"0">>)) + CentsOf(Get(po, "Shipping", <<"0">>)))
\* a plausible slip: the total is computed over a total the text gave
WithTotalOverwriting(po) == Put(po, "Total Amount", TotalStr(po))
WithTotal(po) == IF "Total Amount" \notin DOMAIN po THEN Put(po, "Total Amount", TotalStr(po)) ELSE po

\* po_details after the defaulting steps, in the order of the code
CleanPoDetails(result, now1, now2, tieSub, tieTax) == WithTotal(WithDefault(WithTax(WithSubtotal(WithDefault(WithDefault(WithDefault(WithPoNumber(result), "Creation Date", now1), "Due Date", now2), "Payment Terms", DefaultPaymentTerms), result["line_items"], tieSub), tieTax), "Shipping", DefaultShipping))
\* WithLineItem with no placeholder
WithLineItemNoPlaceholder(items) == items
WithLineItem(items) == IF items = <<>> THEN <<DefaultLineItem>> ELSE items
validate_and_clean_data(result, now1, now2, tieSub, tieTax) == Put(Put(result, "po_details", CleanPoDetails(result, now1, now2, tieSub, tieTax)), "line_items", WithLineItem(result["line_items"]))

\* the sides a rounding can fall to: both at a decimal tie, else one
TieSides(num, den) == IF 2 * (num % den) = den THEN BOOLEAN ELSE {FALSE}
\* the roundings and clock readings validate_and_clean_data can meet on a
\* record (a reading or rounding the call does not make is fixed)
SubtotalTies(result) == IF "Subtotal" \notin DOMAIN result["po_details"] /\ result["line_items"] # <<>> THEN TieSides(SumTotalPrice(result["line_items"]), Scale \div 100) ELSE {FALSE}
TaxTies(result, tieSub) == LET po == WithSubtotal(result["po_details"], result["line_items"], tieSub) IN IF "Tax" \notin DOMAIN po /\ "Subtotal" \in DOMAIN po THEN TieSides(CentsOf(po["Subtotal"]) * TaxRatePerMille, 1000) ELSE {FALSE}
NowReadings(result, key, dates) == IF key \notin DOMAIN result["po_details"] THEN dates ELSE {1}
\* the records validate_and_clean_data can leave
Validated(result) == {validate_and_clean_data(result, NowDates[n1], NowDates[n2], tieSub, tieTax) : <<n1, n2, tieSub, tieTax>> \in {c \in NowReadings(result, "Creation Date", DOMAIN NowDates) \X NowReadings(result, "Due Date", DOMAIN NowDates) \X SubtotalTies(result) \X BOOLEAN : c[4] \in TaxTies(result, c[3]) /\ ("Creation Date" \in DOMAIN result["po_details"] \/ "Due Date" \in DOMAIN result["po_details"] \/ c[1] <= c[2])}}

\* ------------------------------------------------------------------------
\* Input documents
\* ------------------------------------------------------------------------
Absent == <<"<absent>">>
Drop(f) == [k \in {x \in DOMAIN f : f[x] # Absent} |-> f[k]]
Opt(values) == {Absent} \cup values
When(b, value) == IF b THEN value ELSE Absent

\* captured groups the patterns of the extractor can yield
NameFound == {<<"A","c","m","e"," ","C","o","r","p",".">>, <<"A","&","B">>}
TermsFound == {<<"N","e","t"," ","1","5">>, <<" ">>}
\* the texts: every combination of found and missing for the fields the
\* defaulting reads; the other fields are found together or not at all
Texts == {[client_info |-> Drop([name |-> n, phone |-> When(more, <<"5","5","5","-","0","1","0","0"," ">>), email |-> When(more, <<"a","@","b",".","c","o">>), address |-> When(more, <<"1"," ","M","a","i","n"," ","S","t"," ","N","Y"," ","1","0","0","0","1">>)]), po_details |-> Drop([k \in {"PO Number", "Creation Date", "Due Date", "Payment Terms", "Total Amount", "Subtotal", "Tax", "Shipping", "Comments"} |-> CASE k = "PO Number" -> pn [] k = "Creation Date" -> cd [] k = "Due Date" -> dd [] k = "Payment Terms" -> pt [] k = "Total Amount" -> ta [] k = "Subtotal" -> st [] k = "Tax" -> tx [] k = "Shipping" -> sh [] OTHER -> When(more, <<"R","u","s","h"," ","o","r","d","e","r"," ">>)]), ship_to |-> Drop([name |-> When(more, <<"D","o","c","k"," ","4">>), address |-> When(more, <<"9"," ","P","i","e","r"," ","R","d"," ","N","J"," ","0","7","0","0","1">>), phone |-> When(more, <<"5","5","5","-","0","1","9","9">>)])] : n \in Opt(NameFound), more \in BOOLEAN, pn \in Opt({<<"A","-","1","0","0","1">>}), cd \in Opt({<<"0","1","/","1","5","/","2","0","2","4">>}), dd \in Opt({<<"0","2","/","1","5","/","2","0","2","4">>}), pt \in Opt(TermsFound), ta \in Opt({<<"1",",","5","0","0",".","0","0">>}), st \in Opt({<<"2","0","0",".","0","0">>}), tx \in Opt({<<"1","0",".","0","0">>}), sh \in Opt({<<"5",".","0","0">>})}
EmptyText == [client_info |-> EmptyMap, po_details |-> EmptyMap, ship_to |-> EmptyMap]

\* header rows and data rows of the tables
Headers == {<<<<"I","t","e","m">>, <<"Q","t","y">>, <<"U","n","i","t"," ","P","r","i","c","e">>>>, <<<<"I","t","e","m">>, <<"Q","t","y">>, <<"P","r","i","c","e">>, <<"T","o","t","a","l">>>>, <<<<"D","a","t","e">>, <<"N","o","t","e">>, <<"R","e","f">>>>}
DataRows == {<<<<"W","i","d","g","e","t"," ","A">>, <<"3">>, <<"1","0",".","0","0">>>>, <<<<>>, <<" ","2"," ","p","c","s">>, <<"$","4",".","5","0">>, <<"1","0",".","0","0">>>>, <<<<"B","o","l","t">>, <<"1",".","2",".","3">>, <<"5",".","0","0">>>>}
\* the tables of k data rows: a header row and k rows, or the table of no row
TablesOf(k) == {<<h>> \o rows : h \in Headers, rows \in [1..k -> DataRows]} \cup (IF k = 0 THEN {<<>>} ELSE {})
\* the sequences of t tables at most that hold r data rows at most in all
RECURSIVE TableSeqs(_, _)
TableSeqs(t, r) == IF t = 0 THEN {<<>>} ELSE {<<>>} \cup UNION {{<<tb>> \o rest : tb \in TablesOf(k), rest \in TableSeqs(t - 1, r - k)} : k \in 0..r}
\* the tables that go with every text: none, and one table of one row
FewTables == {<<>>, <<<<<<<<"I","t","e","m">>, <<"Q","t","y">>, <<"U","n","i","t"," ","P","r","i","c","e">>>>, <<<<"W","i","d","g","e","t"," ","A">>, <<"3">>, <<"1","0",".","0","0">>>>>>>>}
\* the documents: every text with a few tables, and every table sequence
\* of the bounds with the empty text
ParsedDocuments == {[text |-> t, tables |-> tb] : t \in Texts, tb \in FewTables} \cup {[text |-> EmptyText, tables |-> tb] : tb \in TableSeqs(MaxTables, MaxRows)}


\* the documents in which a label of a client field is followed by nothing
\* but whitespace: after "Customer: " at the end of a line group 1 of the
\* name pattern is the line break, and after "Phone:" and eight blanks group 1
\* of the phone pattern is seven blanks; the table makes float() raise
ClientDocuments == {[text |-> [client_info |-> Drop([name |-> n, phone |-> p, email |-> e, address |-> a]), po_details |-> EmptyMap, ship_to |-> EmptyMap], tables |-> tb] : n \in Opt({<<"A","c","m","e"," ","C","o","r","p",".">>, <<"\n">>}), p \in Opt({<<"5","5","5","-","0","1","0","0"," ">>, <<" "," "," "," "," "," "," ">>}), e \in Opt({<<"a","@","b",".","c","o">>}), a \in Opt({<<"1"," ","M","a","i","n"," ","S","t"," ","N","Y"," ","1","0","0","0","1">>}), tb \in {<<>>, <<<<<<<<"I","t","e","m">>, <<"Q","t","y">>, <<"U","n","i","t"," ","P","r","i","c","e">>>>, <<<<"B","o","l","t">>, <<"1",".","2",".","3">>, <<"5",".","0","0">>>>>>>>}}

\* the documents of one table with a header and one data row: cells that
\* strip to nothing, rows shorter than the header (ragged), and a cell on
\* which float() raises
RowDocuments == LET headers == {<<<<"I","t","e","m">>, <<"Q","t","y">>, <<"P","r","i","c","e">>, <<"T","o","t","a","l">>>>, <<<<"Q","t","y">>, <<"P","r","i","c","e">>, <<"I","t","e","m">>>>, <<<<"I","t","e","m">>, <<"Q","t","y">>, <<"P","r","i","c","e">>, <<"C","o","d","e">>>>}
                    rows == {<<<<"W","i","d","g","e","t"," ","A">>, <<"3">>, <<"1","0",".","0","0">>, <<"3","0",".","0","0">>>>, <<<<"W","i","d","g","e","t"," ","A">>, <<"n","/","a">>, <<"1","0",".","0","0">>, <<"3","0",".","0","0">>>>, <<<<"W","i","d","g","e","t"," ","A">>, <<"3">>, <<>>, <<" ">>>>, <<<<"W","i","d","g","e","t"," ","A">>, <<"3">>, <<"1","0",".","0","0">>, <<"-">>>>, <<<<"W","i","d","g","e","t"," ","A">>, <<"3">>, <<"1","0",".","0","0">>>>, <<<<"W","i","d","g","e","t"," ","A">>, <<"3">>, <<"T","B","D">>, <<"3","0",".","0","0">>>>, <<<<>>, <<" ">>, <<>>, <<>>>>, <<<<>>, <<>>>>, <<<<"3">>, <<"1","0",".","0","0">>>>, <<<<"B","o","l","t">>, <<"1",".","2",".","3">>, <<"5",".","0","0">>>>}
                IN {[text |-> EmptyText, tables |-> <<<<h, r>>>>] : h \in headers, r \in rows}

\* ------------------------------------------------------------------------
\* data_extractor: DataExtractor._find_line_items_table
\* ------------------------------------------------------------------------
line_item_headers == <<<<"i","t","e","m">>, <<"c","o","d","e">>, <<"d","e","s","c","r","i","p","t","i","o","n">>, <<"q","t","y">>, <<"q","u","a","n","t","i","t","y">>, <<"p","r","i","c","e">>, <<"a","m","o","u","n","t">>, <<"t","o","t","a","l">>>>

\* lines 346-349: header_row is the cells of table[0] that are neither None
\* nor '', lower-cased; counted are the keywords found in some cell of it
header_match_count(table) == LET cells == SelectSeq(table[1], LAMBDA cell : cell # None /\ cell # <<>>)
                                 header_row == [j \in DOMAIN cells |-> Lower(Str(cells[j]))]
                             IN Cardinality({h \in DOMAIN line_item_headers : \E j \in DOMAIN header_row : Contains(header_row[j], line_item_headers[h])})

\* lines 340-352: the first table that is not empty (its rows are lists, as
\* every parser builds them) and has at least 3 keywords in its first row;
\* None when the loop ends without a return
RECURSIVE FirstHeaderMatch(_)
FirstHeaderMatch(tables) == IF tables = <<>> THEN None ELSE IF Head(tables) # <<>> /\ header_match_count(Head(tables)) >= 3 THEN Head(tables) ELSE FirstHeaderMatch(Tail(tables))

\* lines 355-361: the first table with more rows than every table before it
RECURSIVE LargestTable(_, _, _)
LargestTable(tables, largest_table, max_rows) == IF tables = <<>> THEN largest_table ELSE IF Head(tables) # <<>> /\ Len(Head(tables)) > max_rows THEN LargestTable(Tail(tables), Head(tables), Len(Head(tables))) ELSE LargestTable(Tail(tables), largest_table, max_rows)

\* a plausible slip: the header test is left out
DataExtractor_find_largest_table_only(tables) == LargestTable(tables, None, 0)
\* lines 335-363
DataExtractor_find_line_items_table(tables) == IF FirstHeaderMatch(tables) # None THEN FirstHeaderMatch(tables) ELSE LargestTable(tables, None, 0)

\* the tables given to _find_line_items_table: a header row and up to MaxRows
\* data rows, and the empty table of a sheet without data rows; the data rows
\* play no part in the choice
FindTables == LET headers == {<<<<"D","a","t","e">>, <<"N","o","t","e">>>>, <<<<"S","K","U">>, <<"D","e","s","c","r","i","p","t","i","o","n">>, <<"Q","t","y">>, <<"P","r","i","c","e">>>>, <<<<"I","t","e","m"," ","C","o","d","e">>, <<"D","e","s","c","r","i","p","t","i","o","n">>>>, <<<<"I","t","e","m">>, <<"Q","t","y">>>>, <<None, <<"D","e","s","c","r","i","p","t","i","o","n">>, <<>>, <<"Q","u","a","n","t","i","t","y">>, <<"A","m","o","u","n","t">>>>}
              IN {<<>>} \cup {<<h>> \o [i \in 1..k |-> <<<<"x">>, <<"1">>>>] : h \in headers, k \in 0..MaxRows}

\* ------------------------------------------------------------------------
\* data_extractor: DataExtractor._extract_po_details
\* ------------------------------------------------------------------------
\* A text is the sequence of its lines.  A line is its characters and what
\* each pattern of _extract_po_details finds in it: re.search on the line gives
\* group 0 of po_pattern_direct and group 1 of every other pattern.  No match
\* of these lines runs over the end of the line.
TextLines == {[line |-> <<"P","O","-","1","2","3","4","5">>, found |-> ("po_pattern_direct" :> <<"P","O","-","1","2","3","4","5">>) @@ ("po_number_patterns[0]" :> <<"-","1","2","3","4","5">>)],
              [line |-> <<"O","r","d","e","r"," ","N","u","m","b","e","r",":"," ","A","B","C","-","9","9","9">>, found |-> ("po_number_patterns[1]" :> <<"A","B","C","-","9","9","9">>)],
              [line |-> <<"P",".","O","."," ","N","u","m","b","e","r",":"," ","X","-","7">>, found |-> ("po_number_patterns[0]" :> <<"X","-","7">>)],
              [line |-> <<"P","u","r","c","h","a","s","e"," ","O","r","d","e","r"," ","#","5","5">>, found |-> ("po_number_patterns[0]" :> <<"5","5">>) @@ ("po_number_patterns[1]" :> <<"5","5">>)],
              [line |-> <<"D","a","t","e",":"," ","0","1","/","1","5","/","2","0","2","4">>, found |-> ("creation_date_patterns[0]" :> <<"0","1","/","1","5","/","2","0","2","4">>)],
              [line |-> <<"D","u","e"," ","D","a","t","e",":"," ","0","2","/","1","5","/","2","0","2","4">>, found |-> ("creation_date_patterns[0]" :> <<"0","2","/","1","5","/","2","0","2","4">>) @@ ("due_date_patterns[0]" :> <<"0","2","/","1","5","/","2","0","2","4">>)],
              [line |-> <<"T","e","r","m","s",":"," ","N","e","t"," ","3","0">>, found |-> ("payment_terms_patterns[0]" :> <<"N","e","t"," ","3","0">>) @@ ("payment_terms_patterns[1]" :> <<"N","e","t"," ","3","0">>) @@ ("payment_terms_patterns[2]" :> <<"3","0">>)],
              [line |-> <<"S","u","b","t","o","t","a","l",":"," ","$","1",",","2","0","0",".","0","0">>, found |-> ("subtotal_patterns[0]" :> <<"1",",","2","0","0",".","0","0">>) @@ ("subtotal_patterns[1]" :> <<"$","1",",","2","0","0",".","0","0">>)],
              [line |-> <<"T","a","x"," ","(","8",".","5","%",")",":"," ","1","0","2",".","0","0">>, found |-> ("tax_patterns[0]" :> <<"1","0","2",".","0","0">>)],
              [line |-> <<"S","h","i","p","p","i","n","g",":"," ","$"," ","7","5">>, found |-> ("shipping_patterns[0]" :> <<"7","5">>) @@ ("shipping_patterns[1]" :> <<"$"," ","7","5">>)],
              [line |-> <<"N","e","t"," ","4","5"," ","d","a","y","s">>, found |-> ("payment_terms_patterns[2]" :> <<"4","5">>)],
              [line |-> <<"H","e","l","l","o">>, found |-> EmptyMap]}

\* re.search(pattern, text): the leftmost match, which is in the first line
\* the pattern finds something in; Absent when re.search returns None
Search(text, pattern) == LET hits == {i \in DOMAIN text : pattern \in DOMAIN text[i].found} IN IF hits = {} THEN Absent ELSE text[CHOOSE i \in hits : \A j \in hits : i <= j].found[pattern]

\* for pattern in patterns: match = re.search(...); if match: ...; break
RECURSIVE FirstMatch(_, _)
FirstMatch(text, patterns) == IF patterns = <<>> THEN Absent ELSE IF Search(text, Head(patterns)) # Absent THEN Search(text, Head(patterns)) ELSE FirstMatch(text, Tail(patterns))

\* a plausible slip: the labelled patterns are tried before the direct one
DataExtractor_po_number_labelled_first(text) == IF FirstMatch(text, <<"po_number_patterns[0]", "po_number_patterns[1]">>) # Absent THEN Strip(FirstMatch(text, <<"po_number_patterns[0]", "po_number_patterns[1]">>)) ELSE Search(text, "po_pattern_direct")
\* lines 175-191: the direct PO-<digits> format, and only without it the
\* labelled patterns in their order
DataExtractor_po_number(text) == IF Search(text, "po_pattern_direct") # Absent THEN Search(text, "po_pattern_direct") ELSE IF FirstMatch(text, <<"po_number_patterns[0]", "po_number_patterns[1]">>) # Absent THEN Strip(FirstMatch(text, <<"po_number_patterns[0]", "po_number_patterns[1]">>)) ELSE Absent

\* lines 199-204, 212-217, 226-231: the first pattern that matches gives
\* the value, stripped
WithMatch(po, key, text, patterns) == IF FirstMatch(text, patterns) = Absent THEN po ELSE Put(po, key, Strip(FirstMatch(text, patterns)))

\* lines 239-250, 258-269, 277-288: the group of the first pattern that
\* matches, without '$' and ',', is given to float(); on ValueError nothing
\* is stored, and the break ends the loop either way
WithAmount(po, key, text, patterns) == LET group == FirstMatch(text, patterns)
                                           amount_str == SelectSeq(Strip(group), LAMBDA c : c # "$" /\ c # ",")
                                       IN IF group = Absent THEN po ELSE IF FloatParses(Strip(amount_str)) THEN Put(po, key, FloatOf(Strip(amount_str))) ELSE po

DataExtractor_extract_po_details(text, po) == LET number == DataExtractor_po_number(text)  with_number == IF number = Absent THEN po ELSE Put(po, "po_number", number) IN WithAmount(WithAmount(WithAmount(WithMatch(WithMatch(WithMatch(with_number, "creation_date", text, <<"creation_date_patterns[0]", "creation_date_patterns[1]">>), "due_date", text, <<"due_date_patterns[0]", "due_date_patterns[1]">>), "payment_terms", text, <<"payment_terms_patterns[0]", "payment_terms_patterns[1]", "payment_terms_patterns[2]">>), "subtotal", text, <<"subtotal_patterns[0]", "subtotal_patterns[1]">>), "tax", text, <<"tax_patterns[0]", "tax_patterns[1]">>), "shipping", text, <<"shipping_patterns[0]", "shipping_patterns[1]">>)

\* most lines of a text given to _extract_po_details
MaxLines == 3

\* ------------------------------------------------------------------------
\* extract_data as a state machine
\* ------------------------------------------------------------------------
\* parsed_data: the argument of extract_data; result: the record it builds;
\* before: the record the last validate_and_clean_data call was given;
\* pc: whether extract_data has started, returned ("done") or raised, or
\* the returned record has been validated once more ("done2")
VARIABLES parsed_data, result, before, pc
\* config_file: the JSON file at config_path; gen: the SalesOrderGenerator of
\* every caller and the statement the caller has reached; issued: the SO
\* numbers returned so far, in order of return; calls, faults: the calls
\* started and the I/O errors met so far
VARIABLES config_file, gen, issued, calls, faults

\* extracted_data: self.extracted_data of the DataExtractor, the record that
\* generate is given; line_items_table: what _find_line_items_table returned
VARIABLES extracted_data, line_items_table
\* sales_order_data: the sales order generate returned; output_dir: the files
\* of the output directory by name; csv_paths: what export returned
VARIABLES sales_order_data, output_dir, csv_paths

extractVars == <<parsed_data, result, before, pc>>
soVars == <<config_file, gen, issued, calls, faults>>
pipelineVars == <<extracted_data, line_items_table, sales_order_data, output_dir, csv_paths>>
vars == <<parsed_data, result, before, pc, config_file, gen, issued, calls, faults, extracted_data, line_items_table, sales_order_data, output_dir, csv_paths>>

EmptyResult == [client_info |-> EmptyMap, po_details |-> EmptyMap, line_items |-> <<>>]

\* the record of lines 21-33 of extract_data: the text fields, then the
\* line items of the tables (no table is looked at when there is none)
Assembled(doc) == LET out == extract_from_tables(doc["tables"], <<>>) IN [raised |-> out.raised, result |-> Put(extract_from_text(doc["text"], EmptyResult), "line_items", out.items)]

\* extract_data, lines 20-38, when no cell raises: the record is assembled,
\* validate_and_clean_data completes it, and it is returned
ExtractData == /\ pc = "start"
               /\ LET rec == Assembled(parsed_data)
                  IN /\ ~rec.raised
                     /\ before' = rec.result
                     /\ result' \in Validated(rec.result)
               /\ pc' = "done"
               /\ UNCHANGED <<parsed_data, config_file, gen, issued, calls, faults, pipelineVars>>

\* extract_data, lines 20-33, when float() raises ValueError on a cell of a
\* line-items table: the exception leaves extract_data, no record is returned
ExtractDataRaises == /\ pc = "start"
                     /\ LET rec == Assembled(parsed_data)
                        IN /\ rec.raised
                           /\ result' = rec.result
                     /\ pc' = "raised"
                     /\ UNCHANGED <<parsed_data, before, config_file, gen, issued, calls, faults, pipelineVars>>

\* validate_and_clean_data applied to the record extract_data returned
ValidateAgain == /\ pc = "done"
                 /\ result' \in Validated(result)
                 /\ before' = result
                 /\ pc' = "done2"
                 /\ UNCHANGED <<parsed_data, config_file, gen, issued, calls, faults, pipelineVars>>


\* ------------------------------------------------------------------------
\* sales_order_generator: generate_sales_order by concurrent callers
\* ------------------------------------------------------------------------
\* the callers of generate_sales_order that share one config path
NumCallers == 2
\* most calls of generate_sales_order in a run
MaxCalls == 3
\* most I/O errors (a failed open of the config file) in a run
MaxFaults == 1

Callers == 1..NumCallers
\* '{prefix}{number:06d}'.format(prefix='SO-', number=n)
ZeroPad(s, width) == [i \in 1..(Max(width, Len(s)) - Len(s)) |-> "0"] \o s
FormatSoNumber(n) == <<"S","O","-">> \o ZeroPad(NatStr(n), 6)

\* the config file: absent, or present with valid JSON holding last_so_number,
\* or present with no valid JSON (open(path, 'w') has emptied it)
NoFile == [exists |-> FALSE, valid |-> FALSE, last_so_number |-> 0]
Truncated(file) == [exists |-> TRUE, valid |-> FALSE, last_so_number |-> 0]
Written(n) == [exists |-> TRUE, valid |-> TRUE, last_so_number |-> n]
Idle == [pc |-> "idle", last_so_number |-> 0, so_number |-> <<>>]
At(c, where) == gen[c].pc = where
Goto(c, where) == [gen EXCEPT ![c].pc = where]

InitGenerator == /\ config_file = NoFile
                 /\ gen = [c \in Callers |-> Idle]
                 /\ issued = <<>>
                 /\ calls = 0
                 /\ faults = 0

\* generate_sales_order, __init__ and _load_config lines 27-30: the file
\* exists and json.load returns its content
LoadConfig(c) == /\ At(c, "idle")
                 /\ calls < MaxCalls
                 /\ config_file.exists /\ config_file.valid
                 /\ gen' = [gen EXCEPT ![c] = [pc |-> "increment", last_so_number |-> config_file.last_so_number, so_number |-> <<>>]]
                 /\ calls' = calls + 1
                 /\ UNCHANGED <<parsed_data, result, before, pc, config_file, issued, faults, pipelineVars>>

\* _load_config lines 27-39: no file, or json.load raises JSONDecodeError:
\* the default configuration is taken and is about to be saved
LoadDefault(c) == /\ At(c, "idle")
                  /\ calls < MaxCalls
                  /\ ~(config_file.exists /\ config_file.valid)
                  /\ gen' = [gen EXCEPT ![c] = [pc |-> "init_open", last_so_number |-> 0, so_number |-> <<>>]]
                  /\ calls' = calls + 1
                  /\ UNCHANGED <<parsed_data, result, before, pc, config_file, issued, faults, pipelineVars>>

\* _load_config lines 28-39: the file exists and open raises IOError: the
\* default configuration is taken and is about to be saved
LoadFails(c) == /\ At(c, "idle")
                /\ calls < MaxCalls
                /\ faults < MaxFaults
                /\ config_file.exists
                /\ gen' = [gen EXCEPT ![c] = [pc |-> "init_open", last_so_number |-> 0, so_number |-> <<>>]]
                /\ calls' = calls + 1
                /\ faults' = faults + 1
                /\ UNCHANGED <<parsed_data, result, before, pc, config_file, issued, pipelineVars>>

\* _save_config line 49: open(path, 'w') creates or empties the file
SaveOpen(c) == /\ At(c, "init_open") \/ At(c, "save_open")
               /\ config_file' = Truncated(config_file)
               /\ gen' = Goto(c, IF At(c, "init_open") THEN "init_write" ELSE "save_write")
               /\ UNCHANGED <<parsed_data, result, before, pc, issued, calls, faults, pipelineVars>>

\* _save_config lines 49-52: open raises IOError, a warning is printed and
\* the file is left as it is
SaveOpenFails(c) == /\ At(c, "init_open") \/ At(c, "save_open")
                    /\ faults < MaxFaults
                    /\ faults' = faults + 1
                    /\ gen' = Goto(c, IF At(c, "init_open") THEN "increment" ELSE "return")
                    /\ UNCHANGED <<parsed_data, result, before, pc, config_file, issued, calls, pipelineVars>>

\* _save_config line 50: json.dump and the close of the file
SaveWrite(c) == /\ At(c, "init_write") \/ At(c, "save_write")
                /\ config_file' = Written(gen[c].last_so_number)
                /\ gen' = Goto(c, IF At(c, "init_write") THEN "increment" ELSE "return")
                /\ UNCHANGED <<parsed_data, result, before, pc, issued, calls, faults, pipelineVars>>

\* a plausible slip: the number is formatted before it is incremented
GenerateSoNumberBeforeIncrement(c) == /\ At(c, "increment")
                                      /\ gen' = [gen EXCEPT ![c] = [pc |-> "save_open", last_so_number |-> gen[c].last_so_number + 1, so_number |-> FormatSoNumber(gen[c].last_so_number)]]
                                      /\ UNCHANGED <<parsed_data, result, before, pc, config_file, issued, calls, faults, pipelineVars>>

\* _generate_so_number lines 57-63
GenerateSoNumber(c) == /\ At(c, "increment")
                       /\ gen' = [gen EXCEPT ![c] = [pc |-> "save_open", last_so_number |-> gen[c].last_so_number + 1, so_number |-> FormatSoNumber(gen[c].last_so_number + 1)]]
                       /\ UNCHANGED <<parsed_data, result, before, pc, config_file, issued, calls, faults, pipelineVars>>

\* generate lines 73-88 and generate_sales_order line 115: the sales order
\* with the so_number is returned
Return(c) == /\ At(c, "return")
             /\ issued' = Append(issued, gen[c].so_number)
             /\ gen' = Goto(c, "idle")
             /\ UNCHANGED <<parsed_data, result, before, pc, config_file, calls, faults, pipelineVars>>

\* ------------------------------------------------------------------------
\* sales_order_generator: generate; csv_exporter: export
\* ------------------------------------------------------------------------
SalesOrderGenerator_generate_client_info(extracted) == IF "client_info" \in DOMAIN extracted THEN extracted["client_info"] ELSE EmptyMap
SalesOrderGenerator_generate_line_items(extracted) == IF "line_items" \in DOMAIN extracted THEN extracted["line_items"] ELSE <<>>
SalesOrderGenerator_generate(extracted, so_number, so_date) == [so_number |-> so_number, so_date |-> so_date, client_info |-> SalesOrderGenerator_generate_client_info(extracted), po_details |-> Get(extracted, "po_details", EmptyMap), ship_to |-> Get(extracted, "ship_to", EmptyMap), line_items |-> SalesOrderGenerator_generate_line_items(extracted)]

client_field_order == <<"so_number", "so_date", "client_name", "client_phone", "client_email", "client_address", "po_number", "creation_date", "due_date", "payment_terms", "subtotal", "tax", "shipping", "total_amount", "ship_to_name", "ship_to_address", "ship_to_phone", "comments">>
line_field_order == <<"so_number", "item_code", "description", "quantity", "unit_price", "total_price", "po_number", "creation_date", "due_date">>
\* the text csv.DictWriter writes for d.get(key, ''): a string as it is
\* (none of the strings here needs quoting), a float, which a DataExtractor
\* stores in the fields below, as str(x)
CsvText(d, key) == LET float_fields == {"quantity", "unit_price", "total_price", "subtotal", "tax", "shipping", "total_amount"} IN IF key \notin DOMAIN d THEN <<>> ELSE IF key \in float_fields THEN FloatStr(d[key] \div (Scale \div 100)) ELSE d[key]

\* lines 70-101: the single row of Output 1
\* f'client_{field}' of lines 74-77, the po_details fields of lines
\* 80-88, f'ship_to_{field}' of lines 91-92
ClientRow(data) == LET client_fields == ("client_name" :> "name") @@ ("client_phone" :> "phone") @@ ("client_email" :> "email") @@ ("client_address" :> "address")
                       ship_to_fields == ("ship_to_name" :> "name") @@ ("ship_to_address" :> "address") @@ ("ship_to_phone" :> "phone")
                   IN [field \in Range(client_field_order) |-> IF field = "so_number" THEN Get(data, "so_number", <<"u","n","k","n","o","w","n">>) ELSE IF field = "so_date" THEN Get(data, "so_date", <<>>) ELSE IF field \in DOMAIN client_fields THEN CsvText(data["client_info"], client_fields[field]) ELSE IF field \in DOMAIN ship_to_fields THEN CsvText(Get(data, "ship_to", EmptyMap), ship_to_fields[field]) ELSE CsvText(Get(data, "po_details", EmptyMap), field)]
\* lines 139-141: the row of one line item
LineItemRow(data, item) == [field \in Range(line_field_order) |-> IF field = "so_number" THEN Get(data, "so_number", <<"u","n","k","n","o","w","n">>) ELSE CsvText(item, field)]

\* _export_client_info: nothing is written for an empty client_info
CSVExporter_export_client_info(data) == IF "client_info" \notin DOMAIN data \/ DOMAIN data["client_info"] = {} THEN [path |-> None, fieldnames |-> <<>>, rows |-> <<>>] ELSE [path |-> <<"c","l","i","e","n","t","_","i","n","f","o","_">> \o Get(data, "so_number", <<"u","n","k","n","o","w","n">>) \o <<".","c","s","v">>, fieldnames |-> client_field_order, rows |-> <<ClientRow(data)>>]
\* _export_line_items: nothing is written for an empty line_items
CSVExporter_export_line_items(data) == IF "line_items" \notin DOMAIN data \/ data["line_items"] = <<>> THEN [path |-> None, fieldnames |-> <<>>, rows |-> <<>>] ELSE [path |-> <<"l","i","n","e","_","i","t","e","m","s","_">> \o Get(data, "so_number", <<"u","n","k","n","o","w","n">>) \o <<".","c","s","v">>, fieldnames |-> line_field_order, rows |-> [i \in DOMAIN data["line_items"] |-> LineItemRow(data, data["line_items"][i])]]
\* open(output_path, 'w'): the file is created or replaced
Written_csv(dir, csv) == IF csv.path = None THEN dir ELSE Put(dir, csv.path, [fieldnames |-> csv.fieldnames, rows |-> csv.rows])

\* the records generate is given: the sub-records a DataExtractor fills, with
\* at least one line item
MaxItems == 2
ExtractedRecords == LET items == {[item_code |-> <<"A","1">>, description |-> <<"W","i","d","g","e","t"," ","A">>, quantity |-> 3 * Scale, unit_price |-> 10 * Scale, total_price |-> 30 * Scale], [description |-> <<"B","o","l","t">>, quantity |-> Scale, so_number |-> <<"S","O","-","9">>]}
                        clients == {EmptyMap, [name |-> <<"A","c","m","e"," ","C","o","r","p",".">>], [name |-> <<"A","&","B">>, phone |-> <<"5","5","5","-","0","1","0","0">>, email |-> <<"a","@","b",".","c","o">>, address |-> <<"1"," ","M","a","i","n"," ","S","t">>]}
                        po_details == {EmptyMap, [po_number |-> <<"P","O","-","1","2","3","4","5">>, creation_date |-> <<"0","1","/","1","5","/","2","0","2","4">>, payment_terms |-> <<"N","e","t"," ","3","0">>, subtotal |-> 1200 * Scale, tax |-> 102 * Scale, shipping |-> 75 * Scale, total_amount |-> 1377 * Scale]}
                        ship_to == {EmptyMap, [name |-> <<"D","o","c","k"," ","4">>, address |-> <<"9"," ","P","i","e","r"," ","R","d">>]}
                    IN {[client_info |-> c, po_details |-> p, ship_to |-> s, line_items |-> li] : c \in clients, p \in po_details, s \in ship_to, li \in UNION {[1..n -> items] : n \in 1..MaxItems}}

\* ------------------------------------------------------------------------
\* The DataExtractor, generate and export as state machines
\* ------------------------------------------------------------------------
\* before any of them has run
InitPipeline == /\ extracted_data = [client_info |-> EmptyMap, po_details |-> EmptyMap, ship_to |-> EmptyMap, line_items |-> <<>>]
                /\ line_items_table = None
                /\ sales_order_data = [so_number |-> <<>>, so_date |-> <<>>, client_info |-> EmptyMap, po_details |-> EmptyMap, ship_to |-> EmptyMap, line_items |-> <<>>]
                /\ output_dir = EmptyMap
                /\ csv_paths = [client_info_path |-> None, line_items_path |-> None]

\* _find_line_items_table on parsed_data['tables']; pc tells which return
\* statement was reached: line 352 ("header_match") or line 363
\* ("largest_table")
FindLineItemsTable == /\ pc = "start"
                      /\ line_items_table' = DataExtractor_find_line_items_table(parsed_data["tables"])
                      /\ pc' = IF FirstHeaderMatch(parsed_data["tables"]) # None THEN "header_match" ELSE "largest_table"
                      /\ UNCHANGED <<parsed_data, result, before, extracted_data, soVars, sales_order_data, output_dir, csv_paths>>

\* _extract_po_details on parsed_data['text']
ExtractPoDetails == /\ pc = "start"
                    /\ extracted_data' = [extracted_data EXCEPT !["po_details"] = DataExtractor_extract_po_details(parsed_data["text"], @)]
                    /\ pc' = "po_details"
                    /\ UNCHANGED <<parsed_data, result, before, line_items_table, soVars, sales_order_data, output_dir, csv_paths>>

\* generate_sales_order(extracted_data) by one caller.  __init__ loads the
\* configuration: last_so_number of the file, or of the default configuration
\* when there is no file that json.load can read.  generate takes the next
\* number, stamps datetime.now() and saves: the last _save_config wrote the
\* number, or open raised IOError and the file is as the save of the default
\* configuration, if there was one, left it
GenerateSalesOrder == /\ pc = "start"
                      /\ LET last_so_number == IF config_file.exists /\ config_file.valid THEN config_file.last_so_number ELSE 0
                         IN /\ \E so_date \in {<<"2","0","2","6","-","1","1","-","0","2">>, <<"2","0","2","6","-","1","1","-","0","3">>} : sales_order_data' = SalesOrderGenerator_generate(extracted_data, FormatSoNumber(last_so_number + 1), so_date)
                            /\ config_file' \in {Written(last_so_number + 1), config_file} \cup (IF config_file.exists /\ config_file.valid THEN {} ELSE {Written(0)})
                      /\ pc' = "generated"
                      /\ UNCHANGED <<parsed_data, result, before, gen, issued, calls, faults, extracted_data, line_items_table, output_dir, csv_paths>>

\* export_to_csv(sales_order_data, output_dir): Output 1, then Output 2, and
\* the two paths are returned
Export == /\ pc = "generated"
          /\ output_dir' = Written_csv(Written_csv(output_dir, CSVExporter_export_client_info(sales_order_data)), CSVExporter_export_line_items(sales_order_data))
          /\ csv_paths' = [client_info_path |-> CSVExporter_export_client_info(sales_order_data).path, line_items_path |-> CSVExporter_export_line_items(sales_order_data).path]
          /\ pc' = "exported"
          /\ UNCHANGED <<parsed_data, result, before, soVars, extracted_data, line_items_table, sales_order_data>>

\* ------------------------------------------------------------------------
\* Specifications
\* ------------------------------------------------------------------------
InitExtract == /\ result = EmptyResult
               /\ before = EmptyResult
               /\ pc = "start"

\* extract_data on every document
Init == /\ parsed_data \in ParsedDocuments
        /\ InitExtract
        /\ InitGenerator
        /\ InitPipeline

Next == \/ ExtractData
        \/ ExtractDataRaises
        \/ ValidateAgain

Spec == Init /\ [][Next]_vars

\* generate_sales_order by NumCallers callers on one config path
InitSO == /\ parsed_data = [text |-> EmptyText, tables |-> <<>>]
          /\ InitExtract
          /\ InitGenerator
          /\ InitPipeline

NextSO == \E c \in Callers : \/ LoadConfig(c)
                             \/ LoadDefault(c)
                             \/ LoadFails(c)
                             \/ SaveOpen(c)
                             \/ SaveOpenFails(c)
                             \/ SaveWrite(c)
                             \/ GenerateSoNumber(c)
                             \/ Return(c)

SpecSO == InitSO /\ [][NextSO]_vars

\* generate_sales_order by callers that do not overlap: a call starts only
\* when no other call is under way
NextInTurn == \E c \in Callers : \/ (\A other \in Callers : At(other, "idle")) /\ (LoadConfig(c) \/ LoadDefault(c) \/ LoadFails(c))
                                 \/ SaveOpen(c)
                                 \/ SaveOpenFails(c)
                                 \/ SaveWrite(c)
                                 \/ GenerateSoNumber(c)
                                 \/ Return(c)

SpecInTurn == InitSO /\ [][NextInTurn]_vars

\* extract_data on the documents of one data row
InitRows == /\ parsed_data \in RowDocuments
            /\ InitExtract
            /\ InitGenerator
            /\ InitPipeline

SpecRows == InitRows /\ [][Next]_vars

\* _find_line_items_table on every table collection
InitTables == /\ parsed_data \in {[text |-> <<>>, tables |-> c] : c \in UNION {[1..n -> FindTables] : n \in 0..MaxTables}}
              /\ InitExtract
              /\ InitGenerator
              /\ InitPipeline

SpecTables == InitTables /\ [][FindLineItemsTable]_vars

\* _extract_po_details on every text
InitPoDetails == /\ parsed_data \in {[text |-> t, tables |-> <<>>] : t \in UNION {[1..n -> TextLines] : n \in 0..MaxLines}}
                 /\ InitExtract
                 /\ InitGenerator
                 /\ InitPipeline

SpecPoDetails == InitPoDetails /\ [][ExtractPoDetails]_vars

\* generate_sales_order and export_to_csv on every extracted record
InitSalesOrder == /\ parsed_data = [text |-> EmptyText, tables |-> <<>>]
                  /\ InitExtract
                  /\ config_file \in {NoFile, Written(0), Written(1)}
                  /\ gen = [c \in Callers |-> Idle]
                  /\ issued = <<>>
                  /\ calls = 0
                  /\ faults = 0
                  /\ extracted_data \in ExtractedRecords
                  /\ line_items_table = None
                  /\ sales_order_data = [so_number |-> <<>>, so_date |-> <<>>, client_info |-> EmptyMap, po_details |-> EmptyMap, ship_to |-> EmptyMap, line_items |-> <<>>]
                  /\ output_dir = EmptyMap
                  /\ csv_paths = [client_info_path |-> None, line_items_path |-> None]

SpecExport == InitSalesOrder /\ [][GenerateSalesOrder \/ Export]_vars

\* generate_sales_order and export_to_csv on every record extract_data
\* returns for a document without tables
InitExtracted == /\ parsed_data \in {[text |-> t, tables |-> <<>>] : t \in Texts}
                 /\ InitExtract
                 /\ InitGenerator
                 /\ extracted_data \in Validated(Assembled(parsed_data).result)
                 /\ line_items_table = None
                 /\ sales_order_data = [so_number |-> <<>>, so_date |-> <<>>, client_info |-> EmptyMap, po_details |-> EmptyMap, ship_to |-> EmptyMap, line_items |-> <<>>]
                 /\ output_dir = EmptyMap
                 /\ csv_paths = [client_info_path |-> None, line_items_path |-> None]

SpecExtracted == InitExtracted /\ [][GenerateSalesOrder \/ Export]_vars

\* extract_data on the texts in which a label of a client field is followed
\* by nothing but whitespace
InitClient == /\ parsed_data \in ClientDocuments
              /\ InitExtract
              /\ InitGenerator
              /\ InitPipeline

SpecClient == InitClient /\ [][Next]_vars

\* ------------------------------------------------------------------------
\* Properties
\* ------------------------------------------------------------------------
\* extract_data has returned, or validate_and_clean_data has run again
Returned == pc \in {"done", "done2"}
PoDetails == result["po_details"]
TextPo == parsed_data["text"]["po_details"]
ItemsOf(rec) == {rec["line_items"][i] : i \in DOMAIN rec["line_items"]}

\* C1: extract_data returns a record for every parsed document and never
\* raises, whatever the cells of the quantity, unit-price and total columns.
C1_ExtractDataNeverRaises == pc # "raised"

\* C2: after validate_and_clean_data the PO number is populated for every
\* record: extracted, or built from the client name, or a placeholder.
C2_PoNumberPopulated == Returned => "PO Number" \in DOMAIN PoDetails

\* C3: after validate_and_clean_data subtotal, tax, shipping and total
\* amount are all populated, also with no line item and no amount in the text.
C3_FinancialsPopulated == Returned => {"Subtotal", "Tax", "Shipping", "Total Amount"} \subseteq DOMAIN PoDetails

\* subtotal, tax and shipping of the returned record are all derived by the
\* engine: none was found in the text, each is in the record
EngineDerived == pc = "done" /\ {"Subtotal", "Tax", "Shipping"} \cap DOMAIN TextPo = {} /\ {"Subtotal", "Tax", "Shipping"} \subseteq DOMAIN PoDetails
TotalIsSum == CentsOf(PoDetails["Total Amount"]) = CentsOf(PoDetails["Subtotal"]) + CentsOf(PoDetails["Tax"]) + CentsOf(PoDetails["Shipping"])
C5_Placeholder == [item_code |-> <<"D","E","F","A","U","L","T","0","0","1">>, description |-> <<"S","t","a","n","d","a","r","d"," ","P","r","o","d","u","c","t">>, quantity |-> Scale, unit_price |-> 100 * Scale, total_price |-> 100 * Scale]
C5_LineItemsNeverEmpty == /\ Returned => result["line_items"] # <<>>
                          /\ (pc = "done" /\ before["line_items"] = <<>>) => result["line_items"] = <<C5_Placeholder>>
                          /\ (pc = "done" /\ before["line_items"] # <<>>) => result["line_items"] = before["line_items"]
C5_Witness == pc = "done" /\ parsed_data["tables"] = <<>> /\ DOMAIN TextPo # {} /\ before["line_items"] = <<>> /\ result["line_items"] = <<C5_Placeholder>>

\* C6: validate_and_clean_data applied to a record that has been through
\* validate_and_clean_data leaves the record as it is.
C6_DefaultingIdempotent == pc = "done2" => result = before

C8_NoDuplicateSoNumber == faults = 0 => \A i \in DOMAIN issued : \A j \in DOMAIN issued : i # j => issued[i] # issued[j]

\* C9: every line item extract_line_items retains carries a non-empty
\* description or a non-empty item code, and a quantity.
HasText(item, key) == key \in DOMAIN item /\ item[key] # <<>>
C9_RetainedItemsCarryText == pc = "done" => \A item \in ItemsOf(before) : (HasText(item, "description") \/ HasText(item, "item_code")) /\ "quantity" \in DOMAIN item

\* C10: a row with quantity and unit price and no extracted total price
\* gets total_price = quantity * unit_price (header [Item, Qty, Unit Price]
\* with row [Widget A, 3, 10.00] gives 3, 10.00 and 30.00); an extracted
\* total price is never replaced by the product.
C10_Header == <<<<"I","t","e","m">>, <<"Q","t","y">>, <<"U","n","i","t"," ","P","r","i","c","e">>>>
C10_TotalHeader == <<<<"I","t","e","m">>, <<"Q","t","y">>, <<"P","r","i","c","e">>, <<"T","o","t","a","l">>>>
C10_TotalRow == <<<<>>, <<" ","2"," ","p","c","s">>, <<"$","4",".","5","0">>, <<"1","0",".","0","0">>>>
NoTotalColumn == \A t \in DOMAIN parsed_data["tables"] : parsed_data["tables"][t] # <<>> /\ parsed_data["tables"][t][1] = C10_Header
C10_TotalPriceDerived == /\ (pc = "done" /\ parsed_data["tables"] = <<<<C10_Header, <<<<"W","i","d","g","e","t"," ","A">>, <<"3">>, <<"1","0",".","0","0">>>>>>>>) => before["line_items"] = <<[description |-> <<"W","i","d","g","e","t"," ","A">>, quantity |-> 3 * Scale, unit_price |-> 10 * Scale, total_price |-> 30 * Scale]>>
                         /\ (pc = "done" /\ NoTotalColumn) => \A item \in ItemsOf(before) : "unit_price" \in DOMAIN item => ("total_price" \in DOMAIN item /\ item["total_price"] * Scale = item["quantity"] * item["unit_price"])
                         /\ pc = "done" => \A item \in ItemsOf(before) : {"quantity", "unit_price"} \subseteq DOMAIN item => "total_price" \in DOMAIN item
                         /\ (pc = "done" /\ parsed_data["tables"] = <<<<C10_TotalHeader, C10_TotalRow>>>>) => before["line_items"] = <<[description |-> <<>>, quantity |-> 2 * Scale, unit_price |-> 45 * (Scale \div 10), total_price |-> 10 * Scale]>>
C10_Witness == pc = "done" /\ parsed_data["tables"] = <<<<C10_Header, <<<<"W","i","d","g","e","t"," ","A">>, <<"3">>, <<"1","0",".","0","0">>>>>>>> /\ parsed_data["text"] # EmptyText /\ before["line_items"][1]["total_price"] = 30 * Scale

\* ---- the table classifier ----
Found == pc \in {"header_match", "largest_table"}
Tables == parsed_data["tables"]
\* the keyword groups of the classifier: item/description identifiers,
\* quantity identifiers, price identifiers
ItemGroup == <<<<"i","t","e","m">>, <<"c","o","d","e">>, <<"d","e","s","c","r","i","p","t","i","o","n">>>>
QuantityGroup == <<<<"q","t","y">>, <<"q","u","a","n","t","i","t","y">>>>
PriceGroup == <<<<"p","r","i","c","e">>, <<"a","m","o","u","n","t">>, <<"t","o","t","a","l">>>>
GroupIn(table, group) == \E j \in DOMAIN table[1] : table[1][j] # None /\ HasKeyword(Lower(table[1][j]), group)
GroupsIn(table) == Cardinality({g \in {ItemGroup, QuantityGroup, PriceGroup} : GroupIn(table, g)})
FullMatch(table) == table # <<>> /\ GroupsIn(table) = 3
NoMatch(table) == table # <<>> /\ GroupsIn(table) = 0

\* C11: in a collection where one table's header matches no keyword and
\* another's matches the item, quantity and price groups, the full-match table
\* is selected, whatever the row counts and the order of the tables
C11_FullMatchSelected == (Found /\ (\E i \in DOMAIN Tables : FullMatch(Tables[i])) /\ (\A i \in DOMAIN Tables : FullMatch(Tables[i]) \/ NoMatch(Tables[i]))) => (line_items_table # None /\ FullMatch(line_items_table))
\* the no-match table comes first and has more rows than the full-match table
C11_Witness == Found /\ Len(Tables) = 2 /\ NoMatch(Tables[1]) /\ FullMatch(Tables[2]) /\ Len(Tables[1]) > Len(Tables[2]) /\ line_items_table = Tables[2]

\* C12: a table is chosen by its header exactly when its header row
\* represents the three keyword groups
C12_ChosenByHeaderIffAllGroups == /\ pc = "header_match" => FullMatch(line_items_table)
                                  /\ pc = "largest_table" => \A i \in DOMAIN Tables : ~FullMatch(Tables[i])

\* C13: without a table that meets the threshold the table with the most rows
\* is selected, and absent is returned for the empty collection only
C13_LargestOrAbsentOnlyIfEmpty == pc = "largest_table" => IF Tables = <<>> THEN line_items_table = None ELSE (line_items_table # None /\ (\E i \in DOMAIN Tables : line_items_table = Tables[i]) /\ (\A i \in DOMAIN Tables : Len(Tables[i]) <= Len(line_items_table)))

\* the line items extract_line_items takes from one table alone
ItemsOfTable(table) == extract_line_items(DataFrame(table), <<>>).items
\* C14: the line items of an extraction record come from a single table:
\* rows of at most one table of the collection contribute to line_items
C14_ItemsFromOneTable == pc = "done" => (before["line_items"] = <<>> \/ \E i \in DOMAIN parsed_data["tables"] : before["line_items"] = ItemsOfTable(parsed_data["tables"][i]))

\* ---- the field matcher of the PO number ----
Text == parsed_data["text"]
StartsWith(s, prefix) == Len(s) >= Len(prefix) /\ SubSeq(s, 1, Len(prefix)) = prefix
After(s, prefix) == SubSeq(s, Len(prefix) + 1, Len(s))
\* a line that is a direct PO-<digits> occurrence
IsDirectPo(s) == StartsWith(s, <<"P","O","-">>) /\ Len(s) > 3 /\ \A i \in 4..Len(s) : IsDigit(s[i])
OrderNumberLabel == <<"O","r","d","e","r"," ","N","u","m","b","e","r",":"," ">>
PoNumberLabel == <<"P",".","O","."," ","N","u","m","b","e","r",":"," ">>
HasLine(Is(_)) == \E i \in DOMAIN Text : Is(Text[i].line)
IsOrderNumber(s) == StartsWith(s, OrderNumberLabel)
IsPoNumber(s) == StartsWith(s, PoNumberLabel)
FoundPoNumber == Get(extracted_data["po_details"], "po_number", Absent)

\* C15: a text with a direct PO-<digits> occurrence and a labelled
\* "Order Number: X" yields the direct value wherever the two occur, and of
\* two labelled rules that match the one listed first gives the value
C15_FirstRuleWins == pc = "po_details" => /\ (HasLine(IsDirectPo) /\ HasLine(IsOrderNumber)) => \E i \in DOMAIN Text : IsDirectPo(Text[i].line) /\ FoundPoNumber = Text[i].line
                                          /\ (~HasLine(IsDirectPo) /\ HasLine(IsPoNumber) /\ HasLine(IsOrderNumber)) => (FoundPoNumber # Absent /\ \A j \in DOMAIN Text : IsOrderNumber(Text[j].line) => FoundPoNumber # After(Text[j].line, OrderNumberLabel))
\* the labelled line comes first in the text, the direct format after it
C15_Witness == pc = "po_details" /\ Len(Text) = 2 /\ Text[1].line = <<"O","r","d","e","r"," ","N","u","m","b","e","r",":"," ","A","B","C","-","9","9","9">> /\ Text[2].line = <<"P","O","-","1","2","3","4","5">> /\ FoundPoNumber = <<"P","O","-","1","2","3","4","5">>

\* ---- client_info ----
ClientInfo == result["client_info"]
\* the text holds no client name, phone, email or address: whatever follows
\* a label is whitespace
NothingRecognizable == \A k \in DOMAIN Text["client_info"] : Strip(Text["client_info"][k]) = <<>>
\* C17: for a text with no recognizable client field client_info has no key,
\* and no key ever holds an empty value
C17_NoFieldWithoutValue == Returned => /\ NothingRecognizable => DOMAIN ClientInfo = {}
                                       /\ \A k \in DOMAIN ClientInfo : ClientInfo[k] # <<>>

\* ---- export ----
Exported == pc = "exported"
SoNumber == sales_order_data["so_number"]
Output1 == <<"c","l","i","e","n","t","_","i","n","f","o","_">> \o SoNumber \o <<".","c","s","v">>
Output2 == <<"l","i","n","e","_","i","t","e","m","s","_">> \o SoNumber \o <<".","c","s","v">>
\* Output 2 has one row for every line item, in their order, each with the
\* so_number of the sales order
Output2Linked == /\ Output2 \in DOMAIN output_dir
                 /\ Len(output_dir[Output2].rows) = Len(sales_order_data["line_items"])
                 /\ \A i \in DOMAIN output_dir[Output2].rows : /\ output_dir[Output2].rows[i]["so_number"] = SoNumber
                                                               /\ output_dir[Output2].rows[i]["description"] = Get(sales_order_data["line_items"][i], "description", <<>>)
\* Output 1 has a single row, with the so_number of the sales order
Output1Linked == /\ Output1 \in DOMAIN output_dir
                 /\ Len(output_dir[Output1].rows) = 1
                 /\ output_dir[Output1].rows[1]["so_number"] = SoNumber

\* C18: Export 2 has exactly one row for every line item, in line-item order,
\* each with the sales order's so_number, which is the so_number of Export 1's
\* single row
C18_ExportsLinked == Exported => (Output2Linked /\ Output1Linked)

\* C19: the export of a generated sales order produces both outputs, keyed by
\* the issued so_number; neither is skipped
C19_BothOutputsProduced == Exported => /\ Output1 = csv_paths["client_info_path"]
                                       /\ Output2 = csv_paths["line_items_path"]
                                       /\ DOMAIN output_dir = {Output1, Output2}

\* ---- the frame of validate_and_clean_data ----
\* every key of the sub-record that was present is present with its value
Kept(section) == \A k \in DOMAIN before[section] : k \in DOMAIN result[section] /\ result[section][k] = before[section][k]
\* C20: validate_and_clean_data never overwrites or removes a value that is
\* present: every po_details field, client_info field and line item present
\* before the call is present with the same value after it
C20_PresentValuesKept == Returned => /\ Kept("po_details")
                                     /\ Kept("client_info")
                                     /\ "ship_to" \in DOMAIN before => ("ship_to" \in DOMAIN result /\ Kept("ship_to"))
                                     /\ \A i \in DOMAIN before["line_items"] : i \in DOMAIN result["line_items"] /\ result["line_items"][i] = before["line_items"][i]
                                     /\ before["line_items"] # <<>> => result["line_items"] = before["line_items"]
\* a record with a total amount and line items from the document, to which
\* the call added fields
C20_Witness == pc = "done" /\ "Total Amount" \in DOMAIN before["po_details"] /\ "name" \in DOMAIN before["client_info"] /\ before["line_items"] # <<>> /\ DOMAIN result["po_details"] # DOMAIN before["po_details"]

\* s.upper()
Upper(s) == [i \in DOMAIN s |-> IF s[i] \in Range(LowerChars) THEN UpperChars[IndexOf(s[i], LowerChars)] ELSE s[i]]
\* the first n characters of s
FirstChars(s, n) == SubSeq(s, 1, Min(n, Len(s)))

\* C21: when the text gave no PO number and a client name exists, the PO
\* number of the returned record is "PO-" followed by the first 5
\* alphanumeric characters of the client name, uppercased
C21_SynthesizedPoUppercased == (pc = "done" /\ "PO Number" \notin DOMAIN before["po_details"] /\ "name" \in DOMAIN before["client_info"]) => PoDetails["PO Number"] = <<"P","O","-">> \o Upper(FirstChars(StripNonAlnum(before["client_info"]["name"]), 5))

\* the columns of Output 1 that come from po_details, each with the key the
\* record of extract_data holds that field under
PoColumns == ("po_number" :> "PO Number") @@ ("creation_date" :> "Creation Date") @@ ("due_date" :> "Due Date") @@ ("payment_terms" :> "Payment Terms") @@ ("subtotal" :> "Subtotal") @@ ("tax" :> "Tax") @@ ("shipping" :> "Shipping") @@ ("total_amount" :> "Total Amount") @@ ("comments" :> "Comments")

\* C22: in Output 1 of a record extract_data returned, each of the columns
\* po_number, creation_date, due_date, payment_terms, subtotal, tax, shipping,
\* total_amount and comments holds the record's value for that field, and is
\* empty only when the record has no value for it
C22_Export1Faithful == (Exported /\ Output1 \in DOMAIN output_dir) => \A column \in DOMAIN PoColumns : output_dir[Output1].rows[1][column] = Get(extracted_data["po_details"], PoColumns[column], <<>>)

\* no call of generate_sales_order is under way
AllReturned == \A c \in Callers : At(c, "idle")

RowTable == DataFrame(parsed_data["tables"][1])
DataRow == RowTable[2]
RowColumns == Columns(HeaderRow(RowTable))
\* the cell of the row in a column that was found is empty after the strip
\* of every character that is neither a digit nor a decimal point
StripsToEmpty(col) == col # 0 /\ NumericText(DataRow, col) = <<>>
LineItems == ItemsOf(before)

\* C24 as stated: a quantity, unit_price or total_price cell that strips to
\* empty leaves that field absent in the line item, and a row whose quantity
\* cell strips to empty is not retained
C24_EmptyNumericAbsent == pc = "done" => /\ StripsToEmpty(RowColumns.qty_col) => (LineItems = {} /\ \A item \in LineItems : "quantity" \notin DOMAIN item)
                                         /\ StripsToEmpty(RowColumns.price_col) => \A item \in LineItems : "unit_price" \notin DOMAIN item
                                         /\ StripsToEmpty(RowColumns.total_col) => \A item \in LineItems : "total_price" \notin DOMAIN item

\* C24, amended: a quantity or unit_price cell that strips to empty leaves
\* that field absent; a total_price cell that strips to empty leaves
\* total_price absent unless quantity and unit_price were both parsed, and
\* then total_price is their product; a row whose quantity cell strips to
\* empty is not retained
C24_EmptyNumericAbsentUnlessDerived == pc = "done" => /\ StripsToEmpty(RowColumns.qty_col) => LineItems = {}
                                                      /\ StripsToEmpty(RowColumns.price_col) => \A item \in LineItems : "unit_price" \notin DOMAIN item
                                                      /\ StripsToEmpty(RowColumns.total_col) => \A item \in LineItems : IF "unit_price" \in DOMAIN item THEN item["total_price"] = Times(item["quantity"], item["unit_price"]) ELSE "total_price" \notin DOMAIN item

\* a row is retained whose price and total cells strip to empty
C24_Witness == pc = "done" /\ parsed_data["tables"][1] = <<<<<<"I","t","e","m">>, <<"Q","t","y">>, <<"P","r","i","c","e">>, <<"T","o","t","a","l">>>>, <<<<"W","i","d","g","e","t"," ","A">>, <<"3">>, <<>>, <<" ">>>>>> /\ before["line_items"] = <<[description |-> <<"W","i","d","g","e","t"," ","A">>, quantity |-> 3 * Scale]>>

\* the data row as the parser gave it, and the columns it has no cell for
RaggedRow == parsed_data["tables"][1][2]
AbsentIn(col) == col > Len(RaggedRow)

\* C25: a data row whose cells are all empty or absent gives no line item,
\* and an absent cell in the description or item-code column never gives a
\* description or item_code value
C25_AbsentCellsAsEmpty == pc = "done" => /\ RowIsEmpty(RaggedRow) => LineItems = {}
                                         /\ AbsentIn(RowColumns.item_col) => \A item \in LineItems : ~HasText(item, "description")
                                         /\ AbsentIn(RowColumns.code_col) => \A item \in LineItems : ~HasText(item, "item_code")

\* no call is under way and the config file holds a counter
Quiet == AllReturned /\ config_file.exists /\ config_file.valid

\* C26: once the config file holds a counter of at least n between calls, it
\* holds at least n between calls ever after, and no number is issued twice,
\* whatever I/O errors occur
C26_CounterNeverDecreases == /\ \A n \in 1..MaxCalls : []((Quiet /\ config_file.last_so_number >= n) => [](Quiet => config_file.last_so_number >= n))
                             /\ [](\A i \in DOMAIN issued : \A j \in DOMAIN issued : i # j => issued[i] # issued[j])
====
